---- MODULE Spec2Model ----
(***************************************************************************)
(* One render cycle of src/model/app.py (a Streamlit dashboard script):    *)
(* load the CSV, resolve column aliases, check the required columns,       *)
(* filter by region, show the summary metrics, the correlation heatmap,    *)
(* the top regions, the scatter plot and the range-filtered scatter plot.  *)
(*                                                                         *)
(* Numbers.  A numeric cell holds an integer i (the float i.0).  Floats    *)
(* the script computes (slider bounds, the mean) are kept exactly, in      *)
(* hundredths: the integer h stands for the float h / 100.  Only finite    *)
(* values are modelled; IEEE infinities and subnormal underflow are not.   *)
(*                                                                         *)
(* The model follows lines 1-309 of the file.  Line 311 holds a stray ")"  *)
(* that keeps the file as it stands from compiling; the model describes    *)
(* the script without it.  The images of show_img and the static text are  *)
(* display only and are left out.                                          *)
(***************************************************************************)
EXTENDS Integers, Sequences, FiniteSets, TLC

(***************************************************************************)
(* Bounds of the model.                                                    *)
(***************************************************************************)
MaxRows == 3      \* rows of the CSV table
MaxLen == 3       \* length of a series handed to safe_slider_range alone
MaxVal == 2       \* numeric cells of such a series range over -MaxVal..MaxVal

(***************************************************************************)
(* Cells, series and tables.                                               *)
(***************************************************************************)
NaN == [k |-> "nan", n |-> 0, s |-> ""]
Num(i) == [k |-> "num", n |-> i, s |-> ""]
Str(t) == [k |-> "str", n |-> 0, s |-> t]

IsNum(c) == c.k = "num"
IsNaN(c) == c.k = "nan"

Abs(x) == IF x < 0 THEN -x ELSE x

\* float(i): the integer cell value i as a float, in hundredths
Scale == 100
ToFloat(i) == i * Scale

Range(q) == {q[i] : i \in 1..Len(q)}

NoTable == [cols |-> <<>>, rows |-> <<>>]

HasCol(t, c) == \E i \in 1..Len(t.cols) : t.cols[i] = c

\* position of column c in table t (column names are distinct)
ColIdx(t, c) == CHOOSE i \in 1..Len(t.cols) : t.cols[i] = c

\* t[c]: the series of column c, in row order
Column(t, c) == [r \in 1..Len(t.rows) |-> t.rows[r][ColIdx(t, c)]]

\* the cell of column c in a row of table t
Cell(t, row, c) == row[ColIdx(t, c)]

\* pandas dtype inference of read_csv: a column is numeric when the table has
\* rows and no cell of the column is a string (missing cells are float NaN)
IsNumericCol(t, c) ==
    /\ Len(t.rows) > 0
    /\ \A r \in 1..Len(t.rows) : Cell(t, t.rows[r], c).k # "str"

RECURSIVE SeqSum(_)
SeqSum(q) == IF q = <<>> THEN 0 ELSE Head(q) + SeqSum(Tail(q))

SetMax(S) == CHOOSE x \in S : \A y \in S : y <= x
SetMin(S) == CHOOSE x \in S : \A y \in S : x <= y

(***************************************************************************)
(* Program constants.                                                      *)
(***************************************************************************)
DATA_PATH == "src/data/processed/demog_clean.csv"
REGION == "region"
LIFE == "life_expectancy_total"
RegionAliases == <<"Region", "entity", "Entity", "location", "Location">>
LifeAliases == <<"Life expectancy", "life_expectancy", "value">>
NoColor == "(ninguno)"
TopN == 20
CandidateX == <<"under5_mortality", "total_deaths", "life_expectancy_male",
                "life_expectancy_female", "gdp_per_capita",
                "health_exp_pct_gdp", "schooling_years">>

(***************************************************************************)
(* load_data and the column handling.                                      *)
(***************************************************************************)
\* c.strip() on the header names of the modelled files: the padded names
\* lose their blanks, every other name has none
Strip(c) ==
    CASE c = "region " -> "region"
      [] c = " value" -> "value"
      [] OTHER -> c

\* load_data: the table read from the file, header names stripped
load_data(file) ==
    [cols |-> [i \in 1..Len(file.cols) |-> Strip(file.cols[i])],
     rows |-> file.rows]

\* df.rename(columns={old: new}): a new table, only the header differs
Rename(t, old, new) ==
    [cols |-> [i \in 1..Len(t.cols) |-> IF t.cols[i] = old THEN new ELSE t.cols[i]],
     rows |-> t.rows]

\* index of the last alias of alts that is a column of t, 0 when none is
LastAlias(t, alts) ==
    IF \E i \in 1..Len(alts) : HasCol(t, alts[i])
    THEN CHOOSE i \in 1..Len(alts) :
            /\ HasCol(t, alts[i])
            /\ \A j \in (i + 1)..Len(alts) : ~HasCol(t, alts[j])
    ELSE 0

\* index of the first alias of alts that is a column of t, 0 when none is
FirstAlias(t, alts) ==
    IF \E i \in 1..Len(alts) : HasCol(t, alts[i])
    THEN CHOOSE i \in 1..Len(alts) :
            /\ HasCol(t, alts[i])
            /\ \A j \in 1..(i - 1) : ~HasCol(t, alts[j])
    ELSE 0

\* "if canon not in df.columns: for alt in alts: if alt in df.columns: rename; break"
ResolveAlias(t, canon, alts) ==
    IF HasCol(t, canon) THEN t
    ELSE IF FirstAlias(t, alts) = 0 THEN t
    ELSE Rename(t, alts[FirstAlias(t, alts)], canon)

ResolveAliases(t) ==
    ResolveAlias(ResolveAlias(t, REGION, RegionAliases), LIFE, LifeAliases)

(***************************************************************************)
(* The sidebar: region options and the region filter.                      *)
(***************************************************************************)
\* Python's order on the region names of the modelled files
StrOrder == <<"A", "Global">>
StrRank(t) == CHOOSE i \in 1..Len(StrOrder) : StrOrder[i] = t

\* a < b for two cells of one column (numbers, or strings)
CellLess(a, b) ==
    IF a.k = "num" /\ b.k = "num" THEN a.n < b.n
    ELSE IF a.k = "str" /\ b.k = "str" THEN StrRank(a.s) < StrRank(b.s)
    ELSE FALSE

\* sorted(S) for a set of mutually comparable cells
RECURSIVE Sorted(_)
Sorted(S) ==
    IF S = {} THEN <<>>
    ELSE LET m == CHOOSE x \in S : \A y \in S : ~CellLess(y, x)
         IN <<m>> \o Sorted(S \ {m})

\* regions = sorted(df["region"].dropna().unique().tolist())
Regions(t) == Sorted({c \in Range(Column(t, REGION)) : ~IsNaN(c)})

\* default_regions = ["Global"] if "Global" in regions else regions[:1]
DefaultRegions(regions) ==
    IF Str("Global") \in Range(regions) THEN <<Str("Global")>>
    ELSE SubSeq(regions, 1, IF Len(regions) >= 1 THEN 1 ELSE 0)

\* df[df["region"].isin(sel)].copy()
IsinRegions(t, sel) ==
    [cols |-> t.cols,
     rows |-> SelectSeq(t.rows, LAMBDA r : Cell(t, r, REGION) \in sel)]

\* a filter that keeps nothing when nothing is selected
RegionFilterNoFallback(t, sel) == IsinRegions(t, sel)

\* df_f = df[df["region"].isin(sel)].copy() if sel else df.copy()
RegionFilter(t, sel) == IF sel # {} THEN IsinRegions(t, sel) ELSE t

(***************************************************************************)
(* The summary metrics.                                                    *)
(***************************************************************************)
\* the numbers of a series, missing cells skipped, in order
RECURSIVE NumVals(_)
NumVals(q) ==
    IF q = <<>> THEN <<>>
    ELSE (IF IsNum(Head(q)) THEN <<Head(q).n>> ELSE <<>>) \o NumVals(Tail(q))

\* a / n (n > 0) rounded to the nearest integer, ties to even
RoundHalfEven(a, n) ==
    LET q == a \div n
        r == a % n
    IN IF 2 * r < n THEN q
       ELSE IF 2 * r > n THEN q + 1
       ELSE IF q % 2 = 0 THEN q ELSE q + 1

\* f"{series.mean():.2f}": the mean of the numbers, to two decimals
\* (hundredths); "nan" when the series holds no number
FmtMean(q) ==
    LET v == NumVals(q)
    IN IF v = <<>> THEN NaN ELSE Num(RoundHalfEven(SeqSum(v) * Scale, Len(v)))

\* f"{series.max():.2f}" and f"{series.min():.2f}"
FmtMax(q) ==
    LET v == NumVals(q) IN IF v = <<>> THEN NaN ELSE Num(ToFloat(SetMax(Range(v))))
FmtMin(q) ==
    LET v == NumVals(q) IN IF v = <<>> THEN NaN ELSE Num(ToFloat(SetMin(Range(v))))

(***************************************************************************)
(* safe_slider_range.                                                      *)
(***************************************************************************)
\* the strings of the modelled series that parse as numbers
ParseNum(t) ==
    CASE t = "2" -> Num(2)
      [] t = "-1" -> Num(-1)
      [] OTHER -> NaN

\* pd.to_numeric(series, errors="coerce")
ToNumeric(q) ==
    [i \in 1..Len(q) |-> IF q[i].k = "str" THEN ParseNum(q[i].s) ELSE q[i]]

\* eps = 1.0 if mn == 0 else abs(mn) * 0.01
EpsNoAbs(mn) == IF mn = 0 THEN ToFloat(1) ELSE mn \div Scale
Eps(mn) == IF mn = 0 THEN ToFloat(1) ELSE Abs(mn) \div Scale

\* safe_slider_range(series): <<lo, hi>> in hundredths
SliderNoWiden(q) ==
    LET s == NumVals(ToNumeric(q))
    IN IF s = <<>> THEN <<ToFloat(0), ToFloat(1)>>
       ELSE <<ToFloat(SetMin(Range(s))), ToFloat(SetMax(Range(s)))>>
safe_slider_range(q) ==
    LET s == NumVals(ToNumeric(q))
    IN IF s = <<>> THEN <<ToFloat(0), ToFloat(1)>>
       ELSE LET mn == ToFloat(SetMin(Range(s)))
                mx == ToFloat(SetMax(Range(s)))
            IN IF mn = mx THEN <<mn - Eps(mn), mx + Eps(mn)>> ELSE <<mn, mx>>

(***************************************************************************)
(* The correlation heatmap.                                                *)
(***************************************************************************)
\* df_f.select_dtypes(include="number").columns.tolist(); the boolean-mask
\* filter leaves each column of df_f the dtype it has in the loaded table d
NumCols(dff, d) == SelectSeq(dff.cols, LAMBDA c : IsNumericCol(d, c))

\* the sub-lists of a list of columns the user can select, in list order
Selections(cols) ==
    {SelectSeq(cols, LAMBDA c : c \in S) : S \in SUBSET Range(cols)}

\* Pearson correlation of two series over the rows where both hold a number,
\* kept exactly: r = num / sqrt(dx * dy), and NaN when dx * dy = 0
Pearson(a, b) ==
    LET I == {i \in 1..Len(a) : IsNum(a[i]) /\ IsNum(b[i])}
        ix == Sorted({Num(i) : i \in I})
        x == [j \in 1..Len(ix) |-> a[ix[j].n].n]
        y == [j \in 1..Len(ix) |-> b[ix[j].n].n]
        n == Len(ix)
        sx == SeqSum(x)
        sy == SeqSum(y)
        sxy == SeqSum([j \in 1..n |-> x[j] * y[j]])
        sxx == SeqSum([j \in 1..n |-> x[j] * x[j]])
        syy == SeqSum([j \in 1..n |-> y[j] * y[j]])
        dx == n * sxx - sx * sx
        dy == n * syy - sy * sy
    IN [nan |-> (dx = 0 \/ dy = 0), num |-> n * sxy - sx * sy, dx |-> dx, dy |-> dy]

\* df_f[selected_cols].corr(numeric_only=True)
Corr(t, cols) ==
    [i \in 1..Len(cols) |->
        [j \in 1..Len(cols) |-> Pearson(Column(t, cols[i]), Column(t, cols[j]))]]

(***************************************************************************)
(* Top regions.                                                            *)
(***************************************************************************)
\* row a goes before row b when sorting by LIFE; missing values go last
Before(t, a, b, ascending) ==
    LET x == Cell(t, a, LIFE)
        y == Cell(t, b, LIFE)
    IN /\ IsNum(x)
       /\ \/ ~IsNum(y)
          \/ IF ascending THEN x.n < y.n ELSE x.n > y.n

\* insert row into a sorted list of rows, after the rows it does not precede
RECURSIVE Insert(_, _, _, _)
Insert(t, row, sorted, ascending) ==
    IF sorted = <<>> THEN <<row>>
    ELSE IF Before(t, row, Head(sorted), ascending) THEN <<row>> \o sorted
    ELSE <<Head(sorted)>> \o Insert(t, row, Tail(sorted), ascending)

RECURSIVE SortRows(_, _, _)
SortRows(t, rows, ascending) ==
    IF rows = <<>> THEN <<>>
    ELSE Insert(t, rows[Len(rows)],
                SortRows(t, SubSeq(rows, 1, Len(rows) - 1), ascending), ascending)

\* t.sort_values(LIFE, ascending=...): a new table (ties keep their order)
SortValues(t, ascending) ==
    [cols |-> t.cols, rows |-> SortRows(t, t.rows, ascending)]

\* t.head(n)
HeadRows(t, n) ==
    [cols |-> t.cols, rows |-> SubSeq(t.rows, 1, IF Len(t.rows) < n THEN Len(t.rows) ELSE n)]

\* a top-regions step that sorts the loaded table in place
TopRegionsInPlace(d, dff) ==
    [df |-> SortValues(d, FALSE),
     top |-> HeadRows(SortValues(dff, FALSE), TopN)]

\* top = df_f.sort_values(LIFE, ascending=False).head(20): the step's effect
\* on the loaded table (none) and the table it derives
TopRegions(d, dff) ==
    [df |-> d,
     top |-> HeadRows(SortValues(dff, FALSE), TopN)]

(***************************************************************************)
(* The scatter plots.                                                      *)
(***************************************************************************)
\* candidate_x, with its fallback to the numeric columns other than LIFE
candidate_x(t, nc) ==
    LET cand == SelectSeq(CandidateX, LAMBDA c : HasCol(t, c) /\ c \in Range(nc))
    IN IF cand = <<>> THEN SelectSeq(nc, LAMBDA c : c # LIFE) ELSE cand

\* st.selectbox(options): one of the options, None when there is none
SelectboxChoices(options) == IF options = <<>> THEN {"None"} ELSE Range(options)

\* the values the user can set a range slider to: the full range
\* <<lo, hi>> it starts with, or any pair of values of the series
SliderChoices(q, lo, hi) ==
    LET stops == {ToFloat(v) : v \in Range(NumVals(q))}
    IN {<<lo, hi>>} \cup {<<a, b>> \in stops \X stops : a <= b}

\* a range filter with exclusive lower bounds
RangeFilterStrict(t, x, xrange, y, yrange) ==
    [cols |-> t.cols,
     rows |-> SelectSeq(t.rows, LAMBDA r :
                /\ IsNum(Cell(t, r, x)) /\ IsNum(Cell(t, r, y))
                /\ ToFloat(Cell(t, r, x).n) > xrange[1]
                /\ ToFloat(Cell(t, r, x).n) <= xrange[2]
                /\ ToFloat(Cell(t, r, y).n) > yrange[1]
                /\ ToFloat(Cell(t, r, y).n) <= yrange[2])]

\* df_f[(df_f[x] >= xr[0]) & (df_f[x] <= xr[1]) & (df_f[y] >= yr[0]) &
\*      (df_f[y] <= yr[1])].copy(); a comparison with NaN is False
RangeFilter(t, x, xrange, y, yrange) ==
    [cols |-> t.cols,
     rows |-> SelectSeq(t.rows, LAMBDA r :
                /\ IsNum(Cell(t, r, x)) /\ IsNum(Cell(t, r, y))
                /\ ToFloat(Cell(t, r, x).n) >= xrange[1]
                /\ ToFloat(Cell(t, r, x).n) <= xrange[2]
                /\ ToFloat(Cell(t, r, y).n) >= yrange[1]
                /\ ToFloat(Cell(t, r, y).n) <= yrange[2])]

(***************************************************************************)
(* The state of a run.                                                     *)
(***************************************************************************)
VARIABLES
    pc,                \* the section of the script the run is about to execute
    file_exists,       \* DATA_PATH.exists()
    csv,               \* the table stored in the file at DATA_PATH
    df,                \* the loaded table
    err,               \* the st.error message shown, if any
    selected_regions,  \* the regions chosen in the sidebar
    df_f,              \* the region-filtered table
    num_cols,          \* the numeric columns of df_f
    rendered,          \* what the section just executed handed to the page
    series,            \* a series handed to safe_slider_range on its own
    slider             \* the range safe_slider_range returned for it

vars == <<pc, file_exists, csv, df, err, selected_regions, df_f, num_cols,
          rendered, series, slider>>

NoError == [kind |-> "none", path |-> "", cols |-> <<>>]
NoRender == [kind |-> "none"]
NoSlider == <<0, 0>>

(***************************************************************************)
(* The sections of the script, as functions of the variables in scope.     *)
(***************************************************************************)
\* a call site that shows the error and goes on
LoadStepNoStop(exists, file) ==
    IF ~exists
    THEN [halt |-> FALSE, df |-> NoTable,
          err |-> [kind |-> "file_not_found", path |-> DATA_PATH, cols |-> <<>>]]
    ELSE [halt |-> FALSE, df |-> load_data(file), err |-> NoError]

\* try: df = load_data()  except Exception as e: st.error(str(e)); st.stop()
\* load_data raises FileNotFoundError, naming DATA_PATH, when the file is missing
LoadStep(exists, file) ==
    IF ~exists
    THEN [halt |-> TRUE, df |-> NoTable,
          err |-> [kind |-> "file_not_found", path |-> DATA_PATH, cols |-> <<>>]]
    ELSE [halt |-> FALSE, df |-> load_data(file), err |-> NoError]

\* a minimum check that only fires when both columns are missing
ColumnsMissingBoth(t) == ~HasCol(t, REGION) /\ ~HasCol(t, LIFE)

\* the minimum check: "region" not in df.columns or LIFE not in df.columns
ColumnsMissing(t) == ~HasCol(t, REGION) \/ ~HasCol(t, LIFE)

\* metrics computed over the unfiltered table
SummaryUnfiltered(d, dff) ==
    [kind |-> "metrics",
     mean |-> FmtMean(Column(d, LIFE)),
     max |-> FmtMax(Column(d, LIFE)),
     min |-> FmtMin(Column(d, LIFE))]

\* the three st.metric calls on df_f['life_expectancy_total']
Summary(d, dff) ==
    [kind |-> "metrics",
     mean |-> FmtMean(Column(dff, LIFE)),
     max |-> FmtMax(Column(dff, LIFE)),
     min |-> FmtMin(Column(dff, LIFE))]

\* a guard that lets a single column through
TooFewOne(cols) == Len(cols) < 1

\* len(cols) < 2
TooFew(cols) == Len(cols) < 2

\* the heatmap section for a selection sel of the numeric columns nc
HeatmapSection(dff, nc, sel) ==
    IF TooFew(nc) THEN [kind |-> "info", text |-> "few_numeric", cols |-> <<>>]
    ELSE IF TooFew(sel) THEN [kind |-> "info", text |-> "select_two", cols |-> sel]
    ELSE [kind |-> "heatmap", cols |-> sel, corr |-> Corr(dff, sel)]

(***************************************************************************)
(* The steps of a run.                                                     *)
(***************************************************************************)
Frame == UNCHANGED <<file_exists, csv, series, slider>>

Halt(e) ==
    /\ pc' = "halted"
    /\ err' = e

\* lines 100-104
LoadData ==
    /\ pc = "load"
    /\ LET r == LoadStep(file_exists, csv)
       IN /\ df' = r.df
          /\ IF r.halt THEN Halt(r.err) ELSE pc' = "alias" /\ err' = r.err
    /\ UNCHANGED <<selected_regions, df_f, num_cols, rendered>>
    /\ Frame

\* lines 106-117
Aliases ==
    /\ pc = "alias"
    /\ df' = ResolveAliases(df)
    /\ pc' = "check"
    /\ UNCHANGED <<err, selected_regions, df_f, num_cols, rendered>>
    /\ Frame

\* lines 119-126
Check ==
    /\ pc = "check"
    /\ IF ColumnsMissing(df)
       THEN Halt([kind |-> "missing_columns", path |-> "", cols |-> df.cols])
       ELSE pc' = "sidebar" /\ UNCHANGED err
    /\ UNCHANGED <<df, selected_regions, df_f, num_cols, rendered>>
    /\ Frame

\* lines 132-143: the user selects any of the offered regions
Sidebar ==
    /\ pc = "sidebar"
    /\ \E sel \in SUBSET Range(Regions(df)) :
          /\ selected_regions' = sel
          /\ df_f' = RegionFilter(df, sel)
    /\ pc' = "summary"
    /\ UNCHANGED <<df, err, num_cols, rendered>>
    /\ Frame

\* lines 149-154
SummarySection ==
    /\ pc = "summary"
    /\ rendered' = Summary(df, df_f)
    /\ pc' = "heatmap"
    /\ UNCHANGED <<df, err, selected_regions, df_f, num_cols>>
    /\ Frame

\* lines 175-192: the user selects any of the numeric columns
Heatmap ==
    /\ pc = "heatmap"
    /\ num_cols' = NumCols(df_f, df)
    /\ \E sel \in Selections(NumCols(df_f, df)) :
          rendered' = HeatmapSection(df_f, NumCols(df_f, df), sel)
    /\ pc' = "top"
    /\ UNCHANGED <<df, err, selected_regions, df_f>>
    /\ Frame

\* lines 200-210
TopSection ==
    /\ pc = "top"
    /\ LET r == TopRegions(df, df_f)
       IN /\ df' = r.df
          /\ rendered' = [kind |-> "bar", top |-> r.top,
                          bars |-> SortValues(r.top, TRUE)]
    /\ pc' = "scatter"
    /\ UNCHANGED <<err, selected_regions, df_f, num_cols>>
    /\ Frame

\* lines 218-245
Scatter ==
    /\ pc = "scatter"
    /\ \E x_var \in SelectboxChoices(candidate_x(df_f, num_cols)) :
          rendered' = [kind |-> "scatter", x |-> x_var, y |-> LIFE, data |-> df_f]
    /\ pc' = "range"
    /\ UNCHANGED <<df, err, selected_regions, df_f, num_cols>>
    /\ Frame

\* lines 253-284
RangeScatter ==
    /\ pc = "range"
    /\ IF Len(num_cols) >= 2
       THEN \E x2 \in Range(num_cols), y2 \in Range(num_cols),
               color2 \in {NoColor} \cup Range(num_cols) :
               LET xb == safe_slider_range(Column(df_f, x2))
                   yb == safe_slider_range(Column(df_f, y2))
               IN \E xr \in SliderChoices(Column(df_f, x2), xb[1], xb[2]),
                     yr \in SliderChoices(Column(df_f, y2), yb[1], yb[2]) :
                     LET df_r == RangeFilter(df_f, x2, xr, y2, yr)
                     IN rendered' =
                          [kind |-> "scatter_range", x2 |-> x2, y2 |-> y2,
                           color2 |-> color2, xb |-> xb, yb |-> yb,
                           xr |-> xr, yr |-> yr, df_r |-> df_r,
                           caption |-> Len(df_r.rows)]
       ELSE rendered' = [kind |-> "skipped"]
    /\ pc' = "done"
    /\ UNCHANGED <<df, err, selected_regions, df_f, num_cols>>
    /\ Frame

Next ==
    \/ LoadData
    \/ Aliases
    \/ Check
    \/ Sidebar
    \/ SummarySection
    \/ Heatmap
    \/ TopSection
    \/ Scatter
    \/ RangeScatter

(***************************************************************************)
(* The files of the model.                                                 *)
(***************************************************************************)
\* rows of a data file: region, life expectancy, GDP per capita
RowPool ==
    {<<Str("Global"), Num(2), Num(0)>>,
     <<Str("A"), Num(1), Num(-1)>>,
     <<Str("A"), Num(2), NaN>>,
     <<NaN, NaN, Num(1)>>,
     <<Str("Global"), Num(0), Num(0)>>}

DataHeaders == {<<REGION, LIFE, "gdp_per_capita">>, <<REGION, LIFE>>}

SeqsUpTo(S, n) == UNION {[1..k -> S] : k \in 1..n}

DataTables ==
    {[cols |-> h, rows |-> [i \in 1..Len(q) |-> SubSeq(q[i], 1, Len(h))]] :
        h \in DataHeaders, q \in SeqsUpTo(RowPool, MaxRows)}

\* header names of the files that vary in their columns; the first column
\* holds strings, the others numbers
FirstNames == {"region", "Region", "entity", "Entity", "location", "Location",
               "region ", "iso_code"}
SecondNames == {LIFE, "Life expectancy", "life_expectancy", "value", " value",
                "gdp_per_capita"}
ThirdNames == {"entity", "Location", "value", "gdp_per_capita"}

Distinct(h) ==
    \A i, j \in 1..Len(h) : i # j => Strip(h[i]) # Strip(h[j])

ColsHeaders ==
    {h \in {<<a, b>> : a \in FirstNames, b \in SecondNames}
           \cup {<<a, b, c>> : a \in FirstNames, b \in SecondNames, c \in ThirdNames} :
        Distinct(h)}

ColsTables ==
    {[cols |-> h,
      rows |-> <<[i \in 1..Len(h) |-> IF i = 1 THEN Str("Global") ELSE Num(i)]>>] :
        h \in ColsHeaders}

Init ==
    /\ pc = "load"
    /\ \/ file_exists = FALSE /\ csv = NoTable
       \/ file_exists = TRUE /\ csv \in DataTables \cup ColsTables
    /\ df = NoTable
    /\ err = NoError
    /\ selected_regions = {}
    /\ df_f = NoTable
    /\ num_cols = <<>>
    /\ rendered = NoRender
    /\ series = <<>>
    /\ slider = NoSlider

Spec == Init /\ [][Next]_vars

(***************************************************************************)
(* safe_slider_range on its own, over every short series.                  *)
(***************************************************************************)
SeriesCells ==
    {NaN, Str("abc"), Str("2"), Str("-1")} \cup {Num(i) : i \in (-MaxVal)..MaxVal}

AllSeries == {<<>>} \cup SeqsUpTo(SeriesCells, MaxLen)

SliderInit ==
    /\ pc = "call"
    /\ series \in AllSeries
    /\ slider = NoSlider
    /\ file_exists = FALSE
    /\ csv = NoTable
    /\ df = NoTable
    /\ err = NoError
    /\ selected_regions = {}
    /\ df_f = NoTable
    /\ num_cols = <<>>
    /\ rendered = NoRender

CallSlider ==
    /\ pc = "call"
    /\ slider' = safe_slider_range(series)
    /\ pc' = "returned"
    /\ UNCHANGED <<file_exists, csv, df, err, selected_regions, df_f, num_cols,
                   rendered, series>>

SliderNext == CallSlider

SliderSpec == SliderInit /\ [][SliderNext]_vars

(***************************************************************************)
(* Properties.                                                             *)
(***************************************************************************)
AfterCheck == {"sidebar", "summary", "heatmap", "top", "scatter", "range", "done"}
AfterSidebar == AfterCheck \ {"sidebar"}

\* the header of the table load_data returns for the file
Loaded == load_data(csv).cols

\* neither the canonical name nor any alias is a column of the loaded file
NoName(canon, alts) ==
    /\ canon \notin Range(Loaded)
    /\ \A k \in 1..Len(alts) : alts[k] \notin Range(Loaded)

\* the rows of t at the positions idx, in their order in t
Pick(t, idx) ==
    [k \in 1..Cardinality(idx) |->
        t.rows[CHOOSE i \in idx : Cardinality({j \in idx : j < i}) = k - 1]]

\* C1: a loaded table that lacks `region` or `life_expectancy_total` after
\* alias resolution makes the run show an error listing the actual columns
\* and halt before any later section; a section after the column check is
\* reached only with both columns present.
C1_MissingColumnsHalt ==
    /\ pc \in AfterCheck => HasCol(df, REGION) /\ HasCol(df, LIFE)
    /\ (/\ file_exists
        /\ pc \notin {"load", "alias", "check"}
        /\ \/ NoName(REGION, RegionAliases) \/ NoName(LIFE, LifeAliases)
           \/ ~HasCol(df, REGION) \/ ~HasCol(df, LIFE))
       => /\ pc = "halted"
          /\ err = [kind |-> "missing_columns", path |-> "", cols |-> df.cols]
          /\ df_f = NoTable
          /\ rendered = NoRender

\* C1 witness: a run halted by the column check on a table that has `region`
\* but no life expectancy column
C1_Witness ==
    /\ pc = "halted"
    /\ err.kind = "missing_columns"
    /\ HasCol(df, REGION)
    /\ ~HasCol(df, LIFE)

SelectedIdx ==
    {i \in 1..Len(df.rows) : df.rows[i][ColIdx(df, REGION)] \in selected_regions}

\* C3 as stated: for every selection, the empty one included, the filtered
\* table holds exactly the rows whose region is selected, in order, unchanged.
C3_FilterExactAnySelection ==
    pc \in AfterSidebar
       => /\ df_f.cols = df.cols
          /\ df_f.rows = Pick(df, SelectedIdx)

\* C3 amended: for a non-empty selection the filtered table holds exactly the
\* rows whose region is selected, in order and unchanged; for the empty
\* selection it holds every row of the table.
C3_FilterExactOrAll ==
    pc \in AfterSidebar
       => /\ df_f.cols = df.cols
          /\ selected_regions # {} => df_f.rows = Pick(df, SelectedIdx)
          /\ selected_regions = {} => df_f.rows = df.rows

\* C3 witness: a non-empty selection that keeps some rows and drops others
C3_Witness ==
    /\ pc = "summary"
    /\ selected_regions # {}
    /\ Len(df_f.rows) > 0
    /\ Len(df_f.rows) < Len(df.rows)

\* the numbers a series holds after coercion
SeriesNumbers(q) ==
    {q[i].n : i \in {j \in 1..Len(q) : q[j].k = "num"}}
    \cup {ParseNum(q[i].s).n :
            i \in {j \in 1..Len(q) : q[j].k = "str" /\ ParseNum(q[j].s).k = "num"}}

\* C4: for a series whose numbers all equal v, safe_slider_range returns
\* (v - eps, v + eps) with eps = 1 when v = 0 and |v| / 100 otherwise, so
\* lo < v < hi.
C4_ConstantWidened ==
    (pc = "returned" /\ Cardinality(SeriesNumbers(series)) = 1)
       => LET v == CHOOSE x \in SeriesNumbers(series) : TRUE
              e == slider[2] - ToFloat(v)
          IN /\ slider[1] = ToFloat(v) - e
             /\ v = 0 => e = ToFloat(1)
             /\ v # 0 => e * 100 = Abs(ToFloat(v))
             /\ slider[1] < ToFloat(v)
             /\ ToFloat(v) < slider[2]

\* C4 witness: the range returned for a constant negative series
C4_Witness ==
    /\ pc = "returned"
    /\ SeriesNumbers(series) = {-2}
    /\ Len(series) >= 2

\* C5: a correlation matrix is computed only for at least two selected
\* numeric columns; with fewer than two numeric columns, or fewer than two
\* selected, the section shows an information message instead, and the run
\* goes on with the next section.
C5_HeatmapGuard ==
    /\ pc = "top"
          => /\ rendered.kind \in {"info", "heatmap"}
             /\ rendered.kind = "heatmap"
                   => /\ Len(rendered.cols) >= 2
                      /\ Len(num_cols) >= 2
                      /\ Range(rendered.cols) \subseteq Range(num_cols)
                      /\ Len(rendered.corr) = Len(rendered.cols)
             /\ Len(num_cols) < 2
                   => rendered.kind = "info" /\ rendered.text = "few_numeric"
             /\ (Len(num_cols) >= 2 /\ rendered.kind = "info")
                   => rendered.text = "select_two" /\ Len(rendered.cols) < 2
    /\ pc = "halted" => err.kind # "none" /\ rendered = NoRender

\* C5 witness: the heatmap section skipped for a selection of one column
C5_Witness ==
    /\ pc = "top"
    /\ rendered.kind = "info"
    /\ rendered.text = "select_two"
    /\ Len(rendered.cols) = 1

\* positions of the rows of df_f that hold a life expectancy
LifeIdx == {i \in 1..Len(df_f.rows) : IsNum(df_f.rows[i][ColIdx(df_f, LIFE)])}

LifeAt(i) == df_f.rows[i][ColIdx(df_f, LIFE)].n

RECURSIVE LifeSum(_)
LifeSum(I) ==
    IF I = {} THEN 0
    ELSE LET i == CHOOSE x \in I : TRUE IN LifeAt(i) + LifeSum(I \ {i})

\* C6: the metrics shown are the mean, maximum and minimum of
\* life_expectancy_total over the rows of the region-filtered table (to the
\* two decimals shown), so min <= mean <= max when it holds a value.
C6_MetricsOfFiltered ==
    pc = "heatmap"
       => /\ rendered.kind = "metrics"
          /\ IF LifeIdx = {}
             THEN rendered.mean = NaN /\ rendered.max = NaN /\ rendered.min = NaN
             ELSE /\ IsNum(rendered.mean) /\ IsNum(rendered.max) /\ IsNum(rendered.min)
                  /\ \E i \in LifeIdx : rendered.max.n = ToFloat(LifeAt(i))
                  /\ \A i \in LifeIdx : ToFloat(LifeAt(i)) <= rendered.max.n
                  /\ \E i \in LifeIdx : rendered.min.n = ToFloat(LifeAt(i))
                  /\ \A i \in LifeIdx : ToFloat(LifeAt(i)) >= rendered.min.n
                  /\ 2 * Abs(rendered.mean.n * Cardinality(LifeIdx)
                             - Scale * LifeSum(LifeIdx)) <= Cardinality(LifeIdx)
                  /\ rendered.min.n <= rendered.mean.n
                  /\ rendered.mean.n <= rendered.max.n

\* C6 witness: metrics of a filtered table that differ from those of the
\* whole table
C6_Witness ==
    /\ pc = "heatmap"
    /\ selected_regions # {}
    /\ IsNum(rendered.mean)
    /\ rendered.mean # FmtMean(Column(df, LIFE))
    /\ rendered.min.n < rendered.mean.n
    /\ rendered.mean.n < rendered.max.n

\* positions of the rows of df_f inside both ranges of the range scatter
InRangeIdx ==
    {i \in 1..Len(df_f.rows) :
        LET x == df_f.rows[i][ColIdx(df_f, rendered.x2)]
            y == df_f.rows[i][ColIdx(df_f, rendered.y2)]
        IN /\ IsNum(x) /\ IsNum(y)
           /\ rendered.xr[1] <= ToFloat(x.n) /\ ToFloat(x.n) <= rendered.xr[2]
           /\ rendered.yr[1] <= ToFloat(y.n) /\ ToFloat(y.n) <= rendered.yr[2]}

NumericIdx ==
    {i \in 1..Len(df_f.rows) :
        /\ IsNum(df_f.rows[i][ColIdx(df_f, rendered.x2)])
        /\ IsNum(df_f.rows[i][ColIdx(df_f, rendered.y2)])}

\* C7: the range-filtered table holds exactly the rows of the region-filtered
\* table whose X lies in [xr_lo, xr_hi] and whose Y lies in [yr_lo, yr_hi],
\* bounds included; with both sliders at the full range safe_slider_range
\* returned, no row with a numeric X and Y is dropped.
C7_RangeFilterInclusive ==
    (pc = "done" /\ rendered.kind = "scatter_range")
       => /\ rendered.df_r.cols = df_f.cols
          /\ rendered.df_r.rows = Pick(df_f, InRangeIdx)
          /\ rendered.caption = Cardinality(InRangeIdx)
          /\ (rendered.xr = rendered.xb /\ rendered.yr = rendered.yb)
                => InRangeIdx = NumericIdx

\* C7 witness: sliders at the full range of two varying columns; the rows
\* holding the column minimum and maximum of X are kept
C7_Witness ==
    /\ pc = "done"
    /\ rendered.kind = "scatter_range"
    /\ rendered.xr = rendered.xb
    /\ rendered.yr = rendered.yb
    /\ rendered.x2 # rendered.y2
    /\ rendered.xr[1] < rendered.xr[2]
    /\ \E r \in Range(rendered.df_r.rows) :
          ToFloat(Cell(df_f, r, rendered.x2).n) = rendered.xr[1]
    /\ \E r \in Range(rendered.df_r.rows) :
          ToFloat(Cell(df_f, r, rendered.x2).n) = rendered.xr[2]

\* C8: once the table is loaded and validated, no section changes it, and
\* the file is never written.
C8_LoadedTableUnchanged ==
    [][/\ pc \in AfterCheck => df' = df
       /\ csv' = csv
       /\ file_exists' = file_exists]_vars

\* C8 witness: the end of a cycle over a table that is not sorted by life
\* expectancy and of which the range filter kept a part
C8_Witness ==
    /\ pc = "done"
    /\ df = ResolveAliases(load_data(csv))
    /\ SortValues(df, FALSE) # df
    /\ rendered.kind = "scatter_range"
    /\ Len(rendered.df_r.rows) < Len(df.rows)

\* C9: alias resolution renames at most one column per required name: none
\* when the canonical name is present, else the first alias present in the
\* fixed order; every other column keeps its name, the rows are untouched,
\* and a table with a name or alias for both required columns passes the check.
AliasRenamed(canon, alts) ==
    /\ canon \in Range(Loaded)
          => \A i \in 1..Len(Loaded) :
                (Loaded[i] = canon \/ Loaded[i] \in Range(alts)) => df.cols[i] = Loaded[i]
    /\ \A k \in 1..Len(alts) :
          (/\ canon \notin Range(Loaded)
           /\ alts[k] \in Range(Loaded)
           /\ \A j \in 1..(k - 1) : alts[j] \notin Range(Loaded))
             => \A i \in 1..Len(Loaded) :
                   /\ Loaded[i] = alts[k] => df.cols[i] = canon
                   /\ (Loaded[i] \in Range(alts) /\ Loaded[i] # alts[k])
                         => df.cols[i] = Loaded[i]
    /\ Cardinality({i \in 1..Len(Loaded) :
                       df.cols[i] = canon /\ Loaded[i] # canon}) <= 1

C10_SliderRange ==
    pc = "returned"
       => LET N == SeriesNumbers(series)
          IN /\ slider[1] < slider[2]
             /\ \A v \in N : slider[1] <= ToFloat(v) /\ ToFloat(v) <= slider[2]
             /\ N = {} => slider = <<ToFloat(0), ToFloat(1)>>
             /\ Cardinality(N) >= 2
                   => slider = <<ToFloat(SetMin(N)), ToFloat(SetMax(N))>>
             /\ Cardinality(N) = 1
                   => \A v \in N : slider[1] < ToFloat(v) /\ ToFloat(v) < slider[2]

\* C10 witness: a series with a missing entry, a non-numeric entry and one
\* repeated number
C10_Witness ==
    /\ pc = "returned"
    /\ Range(series) = {NaN, Str("abc"), Num(1)}
    /\ slider[1] < slider[2]

====
